---- MODULE Spec2Model ----
(***************************************************************************)
(* Model of the movie-server client (src/client/client.py): main,          *)
(* authenticate, fetch_movies_in_page, fetch_movies_starting_from_page and *)
(* fetch_movies_by_year, with the ThreadPoolExecutor workers interleaved   *)
(* with the submitting loop.                                               *)
(***************************************************************************)
EXTENDS Integers, Sequences, FiniteSets, TLC

\* ---------------------------------------------------------------- bounds
MaxK == 1          \* largest number of pages a year's dataset has
PageSize == 1      \* number of movies the server puts on a page
NumYears == 3      \* number of -y options of a run that requests several years
MaxExpire == 1     \* session expiries the server performs during a run
MaxDepth == 1      \* nested retries the interpreter's recursion limit allows a scan
MaxPage == 3       \* pages the submitting loop of a pass is followed for

\* ------------------------------------------------------- program constants
OK == 200              \* status of a successful request
UNAUTHORIZED == 401    \* status of an expired or invalid session
SKIPPED == 1           \* status returned by a call that made no request
NOT_FOUND == 404       \* the server's answer for a page past the end
max_workers == 200     \* ThreadPoolExecutor(max_workers=200)
None == 0              \* the bearer of a failed authentication

VARIABLES
    pc,          \* position of the main thread
    data,        \* server: the page counts of the years seen and still in use
    valid,       \* server: the tokens whose session is alive
    auths,       \* number of POST /api/auth requests issued so far
    expiries,    \* number of sessions the server has expired
    years,       \* main(): args.year, the list of the requested years
    mainBearer,  \* main(): bearer
    yi,          \* main(): index of the year being scanned
    report,      \* main(): the lines printed at line 23, as <<year, total>>
    mainOutput,  \* main(): output, the dict of line 22
    bearer,      \* fetch_movies_starting_from_page: bearer of the running pass
    page,        \* fetch_movies_starting_from_page: page
    loop,        \* fetch_movies_starting_from_page: the line of the loop of
                 \* lines 83-87 the main thread is at
    future,      \* fetch_movies_starting_from_page: future, until line 86 stores it
    futures,     \* fetch_movies_starting_from_page: futures
    pageCount,   \* fetch_movies_starting_from_page: pageCount
    output,      \* fetch_movies_starting_from_page: output
    frames,      \* the suspended callers of the recursion, outermost first
    moviePages,  \* fetch_movies_by_year: moviePages
    total        \* fetch_movies_by_year: the returned sum

vars == <<pc, data, valid, auths, expiries, years, mainBearer, yi,
          report, mainOutput, bearer, page, loop, future, futures, pageCount, output,
          frames, moviePages, total>>

server == <<data, valid, auths, expiries, years>>

\* ------------------------------------------------------------ pure helpers
EmptyDict == [p \in {} |-> <<0, 0>>]

Min(S) == CHOOSE m \in S : \A x \in S : m <= x

Range(s) == {s[i] : i \in DOMAIN s}

RECURSIVE SumCounts(_)
SumCounts(d) ==
    IF DOMAIN d = {} THEN 0
    ELSE LET p == CHOOSE q \in DOMAIN d : TRUE
         IN d[p][1] + SumCounts([q \in DOMAIN d \ {p} |-> d[q]])

\* dict | dict: the right operand wins on a shared key
DictUnion(a, b) ==
    [p \in DOMAIN a \cup DOMAIN b |-> IF p \in DOMAIN b THEN b[p] ELSE a[p]]

\* the server's answer to GET /api/movies/{year}/{page} with a bearer
ServerStatus(y, p, tok) ==
    IF tok \notin valid THEN UNAUTHORIZED
    ELSE IF p <= Len(data[y]) THEN OK
    ELSE NOT_FOUND

ServerCount(y, p) == data[y][p]

\* the datasets of a year: k full pages
Datasets == {[i \in 1..k |-> PageSize] : k \in 0..MaxK}

\* main, line 19: the year being scanned
Year == years[yi]

\* the lists of n requested years, up to the names of the years: -y may name
\* a year again; a new year gets the next unused number
YearLists(n) ==
    {ys \in [1..n -> 1..n] :
        /\ ys[1] = 1
        /\ \A i \in 2..n : \E j \in 1..(i - 1) : ys[i] <= ys[j] + 1}

\* the server's database as the scan of the i-th requested year finds it:
\* the datasets already seen of the years the run still requests, and one of
\* the datasets for the i-th year unless that year was requested before
Databases(i) ==
    LET seen == {z \in DOMAIN data : \E j \in i..Len(years) : years[j] = z}
    IN IF years[i] \in seen THEN {[z \in seen |-> data[z]]}
       ELSE {[z \in seen \cup {years[i]} |->
                 IF z = years[i] THEN d ELSE data[z]] : d \in Datasets}

\* ------------------------------------------------------------ the futures
Queued == [st |-> "queued", res |-> <<0, 0>>]
Started == [st |-> "started", res |-> <<0, 0>>]
InFlight == [st |-> "inflight", res |-> <<0, 0>>]
\* the call waits in requests.get and the server has sent its response
Answered(status, n) ==
    [st |-> "answered", res |-> <<0, 0>>,
     response |-> [status_code |-> status, len |-> n]]
Raised == [st |-> "raised", res |-> <<0, 0>>]
\* line 85 has not been reached in this iteration, or line 86 has stored its future
NoFuture == [st |-> "none", res |-> <<0, 0>>]
Done(count, status) == [st |-> "done", res |-> <<count, status>>]

\* a call counted as finished as soon as a thread has taken it
FinishedOnceTaken(f) == f.st /= "queued"

\* a future whose call has returned or raised
Finished(f) == f.st \in {"done", "raised"}

\* the pages whose call executor.submit has been given in this pass: the
\* keys of futures and, between line 85 and line 86, the page of future
Calls == IF future.st = "none" THEN DOMAIN futures ELSE DOMAIN futures \cup {page}

IsCall(p) == p \in DOMAIN futures \/ (p = page /\ future.st /= "none")

\* the Future object of the call of page p
Call(p) == IF p \in DOMAIN futures THEN futures[p] ELSE future

\* every Future object of the pass by its page
AllFutures == [p \in Calls |-> Call(p)]

\* a worker thread or the server moves the call of page p on: the object is
\* the one futures holds or the one line 86 is about to store
SetCall(p, f) ==
    IF p \in DOMAIN futures
    THEN /\ futures' = [futures EXCEPT ![p] = f]
         /\ future' = future
    ELSE /\ future' = f
         /\ futures' = futures

Running ==
    {p \in Calls : Call(p).st \in {"started", "inflight", "answered"}}

QueuedPages == {p \in Calls : Call(p).st = "queued"}

\* an executor that starts a thread for every work item
HasFreeWorkerNoLimit == TRUE

\* ThreadPoolExecutor(max_workers=200): a thread may take a work item
HasFreeWorker == Cardinality(Running) < max_workers

\* a barrier that does not wait for the calls of the pass
AllDoneNoWait == TRUE

\* the end of the with block (shutdown(wait=True)) and the result() calls
AllDone == {p \in DOMAIN futures : ~Finished(futures[p])} = {}

\* line 90 without its filter: every entry of futures
OutputOfAll(fs) == [p \in DOMAIN fs |-> fs[p].res]

\* line 90: the entries of futures whose result has status 200
OutputOf(fs) ==
    LET keep == {p \in DOMAIN fs : fs[p].res[2] = OK}
    IN [p \in keep |-> fs[p].res]

\* line 93: the page whose status decides between retry and return
Boundary == Min(Range(pageCount))

BoundaryStatus == futures[Boundary].res[2]

\* line 93 comparing with the wrong sense
AuthedInverted == BoundaryStatus = UNAUTHORIZED

\* line 93: authed
Authed == BoundaryStatus /= UNAUTHORIZED

\* lines 98-99 without the clamp of line 99
ResumePageNoClamp(pc_) ==
    IF Len(pc_) > 0 THEN Min(Range(pc_)) - 1 ELSE 1

\* lines 98-99: the page the retried pass starts from
ResumePage(pc_) ==
    LET q == IF Len(pc_) > 0 THEN Min(Range(pc_)) - 1 ELSE 1
    IN IF q < 1 THEN 1 ELSE q

\* line 101 returning the recursive call's result without the caller's output
UnwindLast(fr, out) == out

\* lines 101-102 seen from the outermost caller: output | (output | (...))
RECURSIVE Unwind(_, _)
Unwind(fr, out) ==
    IF fr = <<>> THEN out
    ELSE Unwind(SubSeq(fr, 1, Len(fr) - 1), DictUnion(fr[Len(fr)].output, out))

\* the server's answers to POST /api/auth: 200 with a JSON object that holds a
\* bearer; a refusal whose body is a JSON object, another JSON value (null, a
\* string, a list, a number) or not JSON at all; or no answer (status 0)
AuthAnswers ==
    {[status |-> OK, body |-> "object"],
     [status |-> UNAUTHORIZED, body |-> "object"],
     [status |-> UNAUTHORIZED, body |-> "value"],
     [status |-> UNAUTHORIZED, body |-> "text"],
     [status |-> 0, body |-> "none"]}

\* lines 34-43: what authenticate raises before the status is looked at.
\* No answer is the RequestException of lines 39-41 (exit(1)); line 43 is
\* outside that try: response.json() raises JSONDecodeError on a body that is
\* not JSON, and .get raises AttributeError on a JSON value that is no object
AuthRaises(answer) ==
    IF answer.status = 0 THEN "exit"
    ELSE IF answer.body = "text" THEN "JSONDecodeError"
    ELSE IF answer.body = "value" THEN "AttributeError"
    ELSE "none"

\* authenticate returning the bearer of the body whatever the status is
AuthBearerAnyStatus(status, tok) == tok

\* lines 43-50: the bearer authenticate returns for a server answer
AuthBearer(status, tok) == IF status = OK THEN tok ELSE None

\* ------------------------------------------------------------------- Init
Init ==
    /\ pc = "start"
    /\ data = <<>>
    /\ valid = {}
    /\ auths = 0
    /\ expiries = 0
    /\ years = <<1>>
    /\ mainBearer = None
    /\ yi = 0
    /\ report = <<>>
    /\ mainOutput = <<>>
    /\ bearer = None
    /\ page = 1
    /\ loop = "while"
    /\ future = NoFuture
    /\ futures = EmptyDict
    /\ pageCount = <<>>
    /\ output = EmptyDict
    /\ frames = <<>>
    /\ moviePages = EmptyDict
    /\ total = 0

\* entry of fetch_movies_starting_from_page(args, year, p, b)
StartPass(p, b) ==
    /\ page' = p
    /\ bearer' = b
    /\ pageCount' = <<>>
    /\ loop' = "while"
    /\ future' = NoFuture
    /\ futures' = EmptyDict
    /\ output' = EmptyDict

\* ---------------------------------------------------------------- actions
\* main, lines 13-20: authenticate, fail without a bearer, else scan year 1
MainAuthenticate ==
    /\ pc = "start"
    /\ auths' = auths + 1
    /\ \E answer \in AuthAnswers :
         IF AuthRaises(answer) /= "none"
         THEN \* exit(1), or the exception of line 43 leaves authenticate and main
              /\ pc' = AuthRaises(answer)
              /\ UNCHANGED <<data, valid, mainBearer, yi, bearer, page, loop,
                             future, futures, pageCount, output>>
         ELSE LET b == AuthBearer(answer.status, auths + 1) IN
              /\ valid' = IF answer.status = OK THEN valid \cup {auths + 1}
                          ELSE valid
              /\ mainBearer' = b
              /\ IF b = None
                 THEN /\ pc' = "PermissionError"
                      /\ UNCHANGED <<data, yi, bearer, page, loop, future,
                                     futures, pageCount, output>>
                 ELSE /\ pc' = "submit"
                      /\ yi' = 1
                      /\ data' \in Databases(1)
                      /\ StartPass(1, b)
    /\ UNCHANGED <<expiries, years, report, mainOutput, frames, moviePages,
                   total>>

\* line 83: the loop condition holds and the main thread enters the body;
\* the model follows the loop up to page last
WhileUpTo(last) ==
    /\ pc = "submit"
    /\ loop = "while"
    /\ Len(pageCount) = 0
    /\ page <= last
    /\ loop' = "submit"
    /\ UNCHANGED <<pc, server, mainBearer, yi, report, mainOutput, bearer, page,
                   future, futures, pageCount, output, frames, moviePages, total>>

While == WhileUpTo(MaxPage)

\* line 85: executor.submit creates the Future and puts the work item on the
\* executor's queue; the worker threads run on while it starts a thread and
\* returns
Submit ==
    /\ pc = "submit"
    /\ loop = "submit"
    /\ future' = Queued
    /\ loop' = "assign"
    /\ UNCHANGED <<pc, server, mainBearer, yi, report, mainOutput, bearer, page,
                   futures, pageCount, output, frames, moviePages, total>>

\* lines 86-87: the Future is stored under its page and page is incremented
Assign ==
    /\ pc = "submit"
    /\ loop = "assign"
    /\ futures' = [p \in DOMAIN futures \cup {page} |->
                      IF p /= page THEN futures[p] ELSE future]
    /\ page' = page + 1
    /\ future' = NoFuture
    /\ loop' = "while"
    /\ UNCHANGED <<pc, server, mainBearer, yi, report, mainOutput, bearer,
                   pageCount, output, frames, moviePages, total>>

\* a worker thread of the executor, one of at most max_workers, takes the
\* oldest work item off the queue
Dequeue(p) ==
    /\ pc = "submit"
    /\ IsCall(p)
    /\ Call(p).st = "queued"
    /\ p = Min(QueuedPages)
    /\ HasFreeWorker
    /\ SetCall(p, Started)
    /\ UNCHANGED <<pc, server, mainBearer, yi, report, mainOutput, bearer, page, loop,
                   pageCount, output, frames, moviePages, total>>

\* lines 58-61 without the check of lines 55-56: every call sends its request
BeginFetchNoSkip(p) ==
    /\ pc = "submit"
    /\ IsCall(p)
    /\ Call(p).st = "started"
    /\ SetCall(p, InFlight)
    /\ UNCHANGED <<pc, server, mainBearer, yi, report, mainOutput, bearer, page, loop,
                   pageCount, output, frames, moviePages, total>>

\* lines 55-61 with the skipped call recording its page as line 71 does
BeginFetchRecordsSkip(p) ==
    /\ pc = "submit"
    /\ IsCall(p)
    /\ Call(p).st = "started"
    /\ SetCall(p, IF Len(pageCount) > 0 THEN Done(0, SKIPPED) ELSE InFlight)
    /\ pageCount' = IF Len(pageCount) > 0 THEN Append(pageCount, p)
                    ELSE pageCount
    /\ UNCHANGED <<pc, server, mainBearer, yi, report, mainOutput, bearer, page, loop,
                   output, frames, moviePages, total>>

\* lines 55-61: skip when a page was already recorded, else send the request
BeginFetch(p) ==
    /\ pc = "submit"
    /\ IsCall(p)
    /\ Call(p).st = "started"
    /\ SetCall(p, IF Len(pageCount) > 0 THEN Done(0, SKIPPED) ELSE InFlight)
    /\ UNCHANGED <<pc, server, mainBearer, yi, report, mainOutput, bearer, page, loop,
                   pageCount, output, frames, moviePages, total>>

\* the server handles the request of lines 58-61: it decides the status, and
\* the number of movies of the body, with the sessions alive at that moment;
\* the worker is still blocked in requests.get
Answer(p) ==
    /\ pc = "submit"
    /\ IsCall(p)
    /\ Call(p).st = "inflight"
    /\ LET status == ServerStatus(Year, p, bearer) IN
         SetCall(p, IF status = OK THEN Answered(OK, ServerCount(Year, p))
                        ELSE Answered(status, 0))
    /\ UNCHANGED <<pc, server, mainBearer, yi, report, mainOutput, bearer, page, loop,
                   pageCount, output, frames, moviePages, total>>

\* lines 63-72 without the append of line 71
RespondNeverRecords(p) ==
    /\ pc = "submit"
    /\ IsCall(p)
    /\ Call(p).st = "answered"
    /\ LET statusCode == Call(p).response.status_code IN
         SetCall(p, IF statusCode = OK THEN Done(Call(p).response.len, OK)
                        ELSE Done(0, statusCode))
    /\ UNCHANGED <<pc, server, mainBearer, yi, report, mainOutput, bearer, page, loop,
                   pageCount, output, frames, moviePages, total>>

\* lines 63-72: requests.get has returned, the worker classifies the response
Respond(p) ==
    /\ pc = "submit"
    /\ IsCall(p)
    /\ Call(p).st = "answered"
    /\ LET statusCode == Call(p).response.status_code IN
         IF statusCode = OK
         THEN /\ SetCall(p, Done(Call(p).response.len, OK))
              /\ UNCHANGED pageCount
         ELSE /\ pageCount' = Append(pageCount, p)
              /\ SetCall(p, Done(0, statusCode))
    /\ UNCHANGED <<pc, server, mainBearer, yi, report, mainOutput, bearer, page, loop,
                   output, frames, moviePages, total>>

\* lines 58 and 68: requests.get raises on a request that gets no answer, or
\* eval raises on the body of a 200 response, inside the worker
FetchRaises(p) ==
    /\ pc = "submit"
    /\ IsCall(p)
    /\ \/ Call(p).st = "inflight"
       \/ /\ Call(p).st = "answered"
          /\ Call(p).response.status_code = OK
    /\ SetCall(p, Raised)
    /\ UNCHANGED <<pc, server, mainBearer, yi, report, mainOutput, bearer, page, loop,
                   pageCount, output, frames, moviePages, total>>

\* the server ends the session of the token the running pass sends
Expire ==
    /\ bearer \in valid
    /\ expiries < MaxExpire
    /\ pc = "submit"
    /\ valid' = valid \ {bearer}
    /\ expiries' = expiries + 1
    /\ UNCHANGED <<pc, data, auths, years, mainBearer, yi, report, mainOutput,
                   bearer, page, loop, future, futures, pageCount, output,
                   frames, moviePages, total>>

\* lines 83 and 89-90 and the end of the with block: the loop condition
\* fails, every future is waited for, a raised exception leaves the scan
Join ==
    /\ pc = "submit"
    /\ loop = "while"
    /\ Len(pageCount) > 0
    /\ AllDone
    /\ IF \E p \in DOMAIN futures : futures[p].st = "raised"
       THEN /\ pc' = "exception"
            /\ UNCHANGED output
       ELSE /\ pc' = "decide"
            /\ output' = OutputOf(futures)
    /\ UNCHANGED <<server, mainBearer, yi, report, mainOutput, bearer, page, loop,
                   future, futures, pageCount, frames, moviePages, total>>

\* a retry that gives up, as main does, when authenticate returns no bearer
AfterReauthChecked(b) == IF b = None THEN "PermissionError" ELSE "submit"

\* lines 96-101: the bearer authenticate returned is passed on unchecked
AfterReauth(b) == "submit"

\* lines 93-101, not authed: authenticate again and recurse
Reauthenticate ==
    /\ pc = "decide"
    /\ ~Authed
    /\ Len(frames) < MaxDepth
    /\ auths' = auths + 1
    /\ \E answer \in AuthAnswers :
         IF AuthRaises(answer) /= "none"
         THEN \* exit(1), or the exception of line 43 leaves the scan and main
              /\ pc' = AuthRaises(answer)
              /\ UNCHANGED <<valid, bearer, page, loop, future, futures,
                             pageCount, output, frames>>
         ELSE LET b == AuthBearer(answer.status, auths + 1) IN
              /\ valid' = IF answer.status = OK THEN valid \cup {auths + 1}
                          ELSE valid
              /\ frames' = Append(frames,
                     [output |-> output, boundary |-> Boundary, bearer |-> b])
              /\ pc' = AfterReauth(b)
              /\ StartPass(ResumePage(pageCount), b)
    /\ UNCHANGED <<data, expiries, years, mainBearer, yi, report, mainOutput,
                   moviePages, total>>

\* lines 96-101 at the depth where the interpreter allows no further nested
\* call. The frames requests.post needs decide where the limit is hit: inside
\* the call before the POST is sent, or, the POST made and authenticate
\* through as at any other depth, on the way into the nested pass
StackExhausted ==
    /\ pc = "decide"
    /\ ~Authed
    /\ Len(frames) >= MaxDepth
    /\ \/ /\ pc' = "RecursionError"
          /\ UNCHANGED <<auths, valid>>
       \/ /\ auths' = auths + 1
          /\ \E answer \in AuthAnswers :
               IF AuthRaises(answer) /= "none"
               THEN /\ pc' = AuthRaises(answer)
                    /\ valid' = valid
               ELSE /\ pc' = "RecursionError"
                    /\ valid' = IF answer.status = OK
                                THEN valid \cup {auths + 1} ELSE valid
    /\ UNCHANGED <<data, expiries, years, mainBearer, yi, report, mainOutput,
                   bearer, page, loop, future, futures, pageCount, output,
                   frames, moviePages, total>>

\* lines 93-94, 102 and 106-107: authed, every caller returns, the sum is taken
Finalize ==
    /\ pc = "decide"
    /\ Authed
    /\ moviePages' = Unwind(frames, output)
    /\ total' = SumCounts(Unwind(frames, output))
    /\ pc' = "finalized"
    /\ UNCHANGED <<server, mainBearer, yi, report, mainOutput, bearer, page, loop,
                   future, futures, pageCount, output, frames>>

\* main handing the next year the bearer the last pass was sent with
YearBearerOfLastPass == bearer

\* main, line 20: the bearer every year's scan is started with
YearBearer == mainBearer

\* main, lines 19-24: record the year's total, scan the next year or return
EmitYear ==
    /\ pc = "finalized"
    /\ mainOutput' = [y \in DOMAIN mainOutput \cup {Year} |->
                         IF y = Year THEN total ELSE mainOutput[y]]
    /\ report' = Append(report, <<Year, total>>)
    /\ frames' = <<>>
    /\ moviePages' = EmptyDict
    /\ total' = 0
    /\ IF yi < Len(years)
       THEN /\ yi' = yi + 1
            /\ pc' = "submit"
            /\ data' \in Databases(yi + 1)
            /\ StartPass(1, YearBearer)
       ELSE /\ pc' = "done"
            /\ yi' = yi
            /\ data' = data
            /\ StartPass(1, None)
    /\ UNCHANGED <<valid, auths, expiries, years, mainBearer>>

Next ==
    \/ MainAuthenticate
    \/ While
    \/ Submit
    \/ Assign
    \/ \E p \in 1..MaxPage : Dequeue(p)
    \/ \E p \in 1..MaxPage : BeginFetch(p)
    \/ \E p \in 1..MaxPage : Answer(p)
    \/ \E p \in 1..MaxPage : Respond(p)
    \/ \E p \in 1..MaxPage : FetchRaises(p)
    \/ Expire
    \/ Join
    \/ Reauthenticate
    \/ StackExhausted
    \/ Finalize
    \/ EmitYear

Spec == Init /\ [][Next]_vars

\* a run with several requested years: cli() with -y given again, lines 143-151
InitYears ==
    /\ pc = "start"
    /\ data = <<>>
    /\ valid = {}
    /\ auths = 0
    /\ expiries = 0
    /\ years \in YearLists(NumYears)
    /\ mainBearer = None
    /\ yi = 0
    /\ report = <<>>
    /\ mainOutput = <<>>
    /\ bearer = None
    /\ page = 1
    /\ loop = "while"
    /\ future = NoFuture
    /\ futures = EmptyDict
    /\ pageCount = <<>>
    /\ output = EmptyDict
    /\ frames = <<>>
    /\ moviePages = EmptyDict
    /\ total = 0

SpecYears == InitYears /\ [][Next]_vars

\* the steps of the worker threads of the executor
WorkerStep ==
    \E p \in 1..MaxPage : Dequeue(p) \/ BeginFetch(p) \/ Respond(p)

\* the steps of the server on the page requests it has received
ServerStep == \E p \in 1..MaxPage : Answer(p)

\* the steps of the main thread
MainStep ==
    \/ MainAuthenticate \/ While \/ Submit \/ Assign
    \/ Join \/ Reauthenticate \/ Finalize \/ EmitYear

\* lines 96-101 when the server answers the POST with 200
ReauthenticateAccepted == Reauthenticate /\ pc' = "submit" /\ bearer' /= None

\* the run against a server that is reachable and accepts the credentials
\* of every reauthentication: no page fetch fails in transport
NextFair ==
    \/ MainAuthenticate
    \/ While
    \/ Submit
    \/ Assign
    \/ \E p \in 1..MaxPage : Dequeue(p)
    \/ \E p \in 1..MaxPage : BeginFetch(p)
    \/ \E p \in 1..MaxPage : Answer(p)
    \/ \E p \in 1..MaxPage : Respond(p)
    \/ Expire
    \/ Join
    \/ ReauthenticateAccepted
    \/ Finalize
    \/ EmitYear

\* the threads are scheduled fairly: a worker that can take, start or finish
\* a call does so, and the main thread does not stop while it can go on; the
\* server answers the requests it has received
SpecFair ==
    /\ Init /\ [][NextFair]_vars
    /\ WF_vars(WorkerStep) /\ WF_vars(MainStep) /\ WF_vars(ServerStep)

\* the pages a pass submits when the submitting loop runs ahead of the server
BurstPages == 1..(max_workers + MaxPage)

\* no call waits for a step a worker thread can take
WorkersBlocked ==
    /\ {p \in Calls : Call(p).st = "started"} = {}
    /\ QueuedPages /= {} => ~HasFreeWorker

\* the request the server answers next: the oldest one, one at a time, once
\* every worker waits for an answer or the submitting loop has stopped, and
\* while no worker has a step to take
NextAnswered(p) ==
    /\ IsCall(p)
    /\ Call(p).st = "inflight"
    /\ IsCall(p - 1) => Call(p - 1).st /= "inflight"
    /\ {q \in Calls : \/ Call(q).st = "answered"
                       \/ (Call(q).st = "inflight" /\ q < p)} = {}
    /\ ~HasFreeWorker \/ Len(pageCount) > 0
    /\ WorkersBlocked

\* the runs with one requested year in which the main thread and the workers
\* are faster than the server: the loop of line 83 goes on while the workers
\* wait in requests.get, the session stays alive and no request fails
NextBurst ==
    \/ MainAuthenticate
    \/ WorkersBlocked /\ WhileUpTo(max_workers + MaxPage)
    \/ Submit
    \/ Assign
    \/ \E p \in BurstPages : Dequeue(p)
    \/ \E p \in BurstPages : BeginFetch(p)
    \/ \E p \in BurstPages : NextAnswered(p) /\ Answer(p)
    \/ \E p \in BurstPages : Respond(p)
    \/ Join
    \/ Finalize
    \/ EmitYear

SpecBurst == Init /\ [][NextBurst]_vars

\* ------------------------------------------------- vocabulary of the claims
\* number of pages of the year being scanned, and the sum of their counts
K == Len(data[Year])

RECURSIVE SumSeq(_)
SumSeq(s) == IF s = <<>> THEN 0 ELSE s[1] + SumSeq(Tail(s))

DataTotal == SumSeq(data[Year])

InPass == pc \in {"submit", "decide"}

\* the page the running pass was started from
StartPage == page - Cardinality(DOMAIN futures)

\* the outputs of the completed passes of the year, merged in pass order
RECURSIVE Merged(_)
Merged(fr) ==
    IF fr = <<>> THEN EmptyDict
    ELSE LET n == Len(fr)
             a == Merged(SubSeq(fr, 1, n - 1))
             b == fr[n].output
         IN [p \in DOMAIN a \cup DOMAIN b |-> IF p \in DOMAIN b THEN b[p] ELSE a[p]]

Accumulated ==
    IF pc = "finalized" THEN moviePages
    ELSE IF pc = "decide"
         THEN Merged(Append(frames, [output |-> output]))
         ELSE Merged(frames)

\* every reauthentication of the year returned a bearer
EveryReauthValid == \A i \in DOMAIN frames : frames[i].bearer /= 0

ExactResult ==
    /\ DOMAIN moviePages = 1..K
    /\ \A p \in 1..K : moviePages[p] = <<data[Year][p], 200>>
    /\ total = DataTotal

\* ------------------------------------------------------------------ claims
\* C1: with a token that stays valid and pages 1..k answering 200 and the
\* later pages a non-200, non-401 status, the finalized result has exactly
\* the pages 1..k and the total is the sum of their counts, whatever the
\* interleaving of the workers and the submitting loop.
C1_ExactPagesAndTotal ==
    (pc = "finalized" /\ expiries = 0 /\ frames = <<>>) => ExactResult

\* C2: when the session expired during the year's scan and every
\* reauthentication returned a valid token, the finalized result holds every
\* page 1..k exactly once and the total is the sum of their counts.
C2_NoLossAcrossExpiry ==
    (pc = "finalized" /\ expiries >= 1 /\ frames /= <<>> /\ EveryReauthValid)
        => ExactResult

\* C3: the total of a finalized scan is a function of the dataset alone: it
\* is the sum of the counts of the year's pages, the total a run whose calls
\* complete one after the other returns, whatever the completion order.
C3_TotalDependsOnlyOnDataset ==
    pc = "finalized" => total = DataTotal

\* C4: when page 1 of the first pass answered 401 the retried pass starts at
\* page 1, and once the scan is finalized after a successful
\* reauthentication page 1 is a Success entry of the result and its count is
\* part of the total.
C4_PageOneRetried ==
    [][ /\ (pc = "decide" /\ frames = <<>> /\ pc' = "submit"
             /\ futures[1].res[2] = 401) => page' = 1
        /\ (pc = "decide" /\ pc' = "finalized" /\ frames /= <<>>
             /\ frames[1].boundary = 1 /\ EveryReauthValid /\ K >= 1)
            => /\ 1 \in DOMAIN moviePages'
               /\ moviePages'[1] = <<data[Year][1], 200>>
               /\ total' = DataTotal ]_vars

\* C5: when a pass ends, its boundary is the lowest page submitted in the
\* pass whose result is not Success: every lower page of the pass has a
\* Success result.
C5_BoundaryIsLowestNonSuccess ==
    pc = "decide" =>
        /\ Boundary \in DOMAIN futures
        /\ futures[Boundary].res[2] /= 200
        /\ \A p \in DOMAIN futures : p < Boundary => futures[p].res[2] = 200

\* C6: a pass retried after an Unauthorized boundary at page b starts at
\* page max(1, b - 1).
C6_ResumePage ==
    [][ (pc = "decide" /\ pc' = "submit") =>
          LET b == Min({pageCount[i] : i \in DOMAIN pageCount})
          IN /\ futures[b].res[2] = 401
             /\ page' = (IF b - 1 >= 1 THEN b - 1 ELSE 1)
             /\ AllFutures' = EmptyDict ]_vars

C6_Witness ==
    /\ pc = "submit"
    /\ frames /= <<>>
    /\ frames[Len(frames)].boundary = 3
    /\ futures = EmptyDict
    /\ page = 2

\* C7: the scan of a year starts at page 1 with the token main holds, every
\* entry of the finalized result has status 200 and the count the server
\* sent for that page, and the returned total is the sum of those counts, so
\* no outcome other than Success contributes.
C7_OnlySuccessCounts ==
    /\ (InPass /\ frames = <<>>) => (StartPage = 1 /\ bearer = mainBearer)
    /\ pc = "finalized" =>
         /\ \A p \in DOMAIN moviePages :
               /\ moviePages[p][2] = 200
               /\ p \in 1..K
               /\ moviePages[p][1] = data[Year][p]
         /\ total = SumSeq([i \in 1..K |->
                              IF i \in DOMAIN moviePages THEN data[Year][i] ELSE 0])

C7_Witness ==
    /\ pc = "finalized"
    /\ total >= 1
    /\ \E p \in DOMAIN futures : futures[p].res[2] = 1
    /\ \E p \in DOMAIN futures : futures[p].res[2] = 404

\* C8: across the passes of a year the accumulated result only grows: a page
\* that is Success in it stays Success with the same entry, whatever a later
\* pass returned for that page.
C8_AccumulatedGrows ==
    [][ (yi' = yi /\ pc' \in {"submit", "decide", "finalized"}) =>
          \A p \in DOMAIN Accumulated :
              Accumulated[p][2] = 200 =>
                  /\ p \in DOMAIN Accumulated'
                  /\ Accumulated'[p] = Accumulated[p] ]_vars

C8_Witness ==
    /\ pc = "finalized"
    /\ Len(frames) >= 1
    /\ \E p \in DOMAIN frames[1].output :
          /\ p \in DOMAIN futures
          /\ futures[p].res[2] /= 200
          /\ p \in DOMAIN moviePages

\* C9 as stated: after a pass the scan reauthenticates and starts a new pass
\* exactly when the boundary status is 401; otherwise the year is finalized,
\* and a finalized year issues no page request and no authentication request.
C9_RetryIffUnauthorized ==
    [][ /\ (pc = "decide" /\ pc' /= "decide") =>
              IF futures[Min(Range(pageCount))].res[2] = 401
              THEN /\ pc' = "submit"
                   /\ auths' = auths + 1
                   /\ AllFutures' = EmptyDict
                   /\ Len(frames') = Len(frames) + 1
              ELSE /\ pc' = "finalized"
                   /\ auths' = auths
        /\ pc = "finalized" =>
              /\ auths' = auths
              /\ \A p \in DOMAIN AllFutures' : AllFutures'[p].st = "done"
              /\ \A p \in Calls : Call(p).st = "done" ]_vars

\* C9, amended: a new pass is started, and an authentication request issued,
\* only after a boundary of status 401. After such a boundary the scan never
\* finalizes: below the interpreter's recursion limit it issues one
\* authentication request and starts the nested pass, unless authenticate
\* ends the run (exit, JSONDecodeError, AttributeError); at the limit the run
\* ends, in one of these errors after the request or in RecursionError. Any
\* other boundary status finalizes the year without a request, and a finalized
\* year issues no page request and no authentication request.
C9_RetryUnlessAuthenticateFails ==
    [][ /\ (pc = "decide" /\ pc' /= "decide") =>
              IF futures[Min(Range(pageCount))].res[2] = 401
              THEN /\ pc' \in {"submit", "exit", "JSONDecodeError",
                                "AttributeError", "RecursionError"}
                   /\ pc' /= "RecursionError" => auths' = auths + 1
                   /\ pc' = "RecursionError" =>
                         (Len(frames) >= MaxDepth /\ auths' \in {auths, auths + 1})
                   /\ Len(frames) < MaxDepth => auths' = auths + 1
                   /\ pc' = "submit" =>
                         /\ Len(frames) < MaxDepth
                         /\ AllFutures' = EmptyDict
                         /\ Len(frames') = Len(frames) + 1
              ELSE /\ pc' = "finalized"
                   /\ auths' = auths
        /\ (pc /= "start" /\ auths' /= auths) =>
              (pc = "decide" /\ futures[Min(Range(pageCount))].res[2] = 401)
        /\ pc = "finalized" =>
              /\ auths' = auths
              /\ \A p \in DOMAIN AllFutures' : AllFutures'[p].st = "done"
              /\ \A p \in Calls : Call(p).st = "done" ]_vars

C9_Witness ==
    /\ pc = "finalized"
    /\ Len(frames) >= 1
    /\ auths >= 2
    /\ futures[Min(Range(pageCount))].res[2] = 404

\* C10: when a pass selects its boundary, reauthenticates, starts the next
\* pass or returns, every call submitted in the pass has completed.
C10_BarrierBeforeBoundary ==
    [][ /\ ((pc = "decide" \/ (pc = "submit" /\ AllFutures /= EmptyDict)) /\ pc' /= pc) =>
              /\ \A p \in Calls : Call(p).st \in {"done", "raised"}
              /\ Calls = DOMAIN futures
        /\ pc' \in {"decide", "finalized", "exception"} =>
              /\ \A p \in DOMAIN AllFutures' :
                    AllFutures'[p].st \in {"done", "raised"}
              /\ DOMAIN AllFutures' = DOMAIN futures' ]_vars

C10_Witness ==
    /\ pc = "decide"
    /\ Cardinality(DOMAIN futures) >= 3
    /\ \E p \in DOMAIN futures : futures[p].res[2] = 1
    /\ \E p \in DOMAIN futures : futures[p].res[2] = 200

\* C11: an authentication request is issued only while no call of a pass is
\* queued, started or in flight; the token of a pass is replaced only then,
\* together with the start of a new pass, so that every call of one pass
\* sends the same token.
C11_TokenReplacedBetweenPasses ==
    [][ /\ (auths' /= auths \/ bearer' /= bearer) =>
              \A p \in Calls : Call(p).st \in {"done", "raised"}
        /\ bearer' /= bearer => AllFutures' = EmptyDict
        /\ (\E p \in DOMAIN AllFutures' :
                AllFutures'[p].st \notin {"done", "raised"}) =>
              (AllFutures /= EmptyDict => bearer' = bearer) ]_vars

C11_Witness ==
    /\ pc = "submit"
    /\ frames /= <<>>
    /\ bearer /= mainBearer
    /\ bearer \in valid
    /\ \E p \in DOMAIN futures : futures[p].st = "inflight"
    /\ \E p \in DOMAIN futures : futures[p].st = "started"

\* the calls of the pass that were submitted and have not returned or raised
Outstanding == {p \in Calls : Call(p).st \notin {"done", "raised"}}

\* C12 as stated: the calls submitted and not yet completed never outnumber
\* the concurrency limit, the loop submitting a page only when a slot is free.
C12_SubmitWaitsForFreeSlot ==
    pc = "submit" => Cardinality(Outstanding) <= max_workers

\* C12, amended: the calls a worker thread has taken and not yet completed
\* never outnumber the concurrency limit. The submitting loop does not wait
\* for a worker: every call it submits is put on the queue, whatever the
\* number of calls outstanding, and a call leaves the queue only as the oldest
\* queued call and only while fewer than max_workers calls are running, so
\* every queued page is higher than every page a thread has taken.
C12_RunningWithinLimit ==
    [][ LET after == AllFutures'
            queued == QueuedPages
        IN /\ Cardinality(Running) <= max_workers
           /\ Cardinality(Running') <= max_workers
           /\ \A q \in queued : \A p \in Calls \ queued : p < q
           /\ \A p \in DOMAIN after \ Calls :
                 /\ p = page
                 /\ after[p].st = "queued"
           /\ (page' = page + 1 /\ pc' = "submit" /\ pc = "submit") =>
                 (page \in DOMAIN futures' /\ futures'[page] = future)
           /\ \A p \in queued :
                 (p \in DOMAIN after /\ after[p].st /= "queued") =>
                     /\ \A q \in queued : p <= q
                     /\ Cardinality(Running) < max_workers
                     /\ after[p].st = "started" ]_vars

C12_Witness ==
    /\ pc = "submit"
    /\ Cardinality(Running) = max_workers
    /\ QueuedPages /= {}
    /\ Cardinality(Outstanding) > max_workers
    /\ \E p \in DOMAIN futures : futures[p].st = "done" /\ p < max_workers

\* C13: a transport failure or an unparseable body of a page fetch leaves the
\* worker as a non-200 outcome whose page is among the boundary candidates:
\* no call of a pass ends by raising, and no exception leaves the scan.
C13_FetchFailureStopsPagination ==
    /\ \A p \in Calls :
          Call(p).st = "raised" => p \in Range(pageCount)
    /\ pc /= "exception"

\* C14: an authentication is one POST /api/auth and yields a token exactly
\* when the server answered it with 200, that is when the server opened the
\* session of that token; a startup authentication without a token ends the
\* run in an error (PermissionError, exit(1), or the JSONDecodeError or
\* AttributeError of a refusal whose body is not a JSON object), with no page
\* request and no year record, for good.
C14_TokenIffOk ==
    [][ /\ auths' \in {auths, auths + 1}
        /\ (pc = "start" /\ pc' /= "start") =>
              /\ auths' = auths + 1
              /\ mainBearer' /= 0 <=> (auths + 1) \in valid'
              /\ mainBearer' /= 0 => (mainBearer' = auths + 1 /\ pc' = "submit")
              /\ mainBearer' = 0 =>
                    /\ pc' \in {"PermissionError", "exit", "JSONDecodeError",
                              "AttributeError"}
                    /\ AllFutures' = EmptyDict
                    /\ report' = <<>>
                    /\ mainOutput' = <<>>
        /\ (pc = "decide" /\ pc' = "submit") =>
              /\ bearer' /= 0 <=> (auths + 1) \in valid'
              /\ bearer' /= 0 => bearer' = auths + 1
        /\ pc \in {"PermissionError", "exit", "JSONDecodeError",
                  "AttributeError"} =>
              vars' = vars ]_vars

C14_Witness ==
    /\ pc = "PermissionError"
    /\ auths = 1
    /\ mainBearer = 0
    /\ valid = {}
    /\ futures = EmptyDict
    /\ report = <<>>

\* C15: under fair scheduling of the threads, against a server that answers
\* every page request and accepts every reauthentication, each pass of a
\* scan reaches its decision (the submitting loop stops and the barrier is
\* passed) and the scan of the year reaches Finalized.
C15_ScanReachesFinalized ==
    /\ (pc = "submit") ~> (pc = "decide")
    /\ (pc = "submit") ~> (pc = "finalized")

C15_Witness ==
    /\ pc = "finalized"
    /\ Len(frames) = MaxDepth
    /\ expiries >= 1
    /\ \E p \in DOMAIN moviePages : moviePages[p][2] = 200

\* every page request of the pass that was answered was answered 401
PassRejected ==
    /\ pc = "decide"
    /\ \A p \in DOMAIN futures : futures[p].res[2] \in {401, 1}

\* C16 as stated: after a pass whose page requests were all answered 401 the
\* scan is neither finalized nor ended by an error of its own: it
\* authenticates again and, unless the authentication itself fails (no
\* answer, or a body that is not a JSON object), starts a further pass, however many
\* rounds came before.
C16_RetriesForever ==
    [][ PassRejected =>
            /\ pc' \in {"decide", "submit", "exit", "JSONDecodeError",
                       "AttributeError"}
            /\ pc' = "submit" => Len(frames') = Len(frames) + 1 ]_vars

\* C16, amended: the code puts no ceiling on the rounds and a reauthentication
\* that returns no token is not fatal: a pass answered 401 throughout is never
\* finalized and is followed by a further nested pass, until the nesting
\* reaches the interpreter's recursion limit, where RecursionError ends the run.
C16_RetriesUntilStackExhausted ==
    [][ PassRejected =>
            /\ pc' \in {"decide", "submit", "exit", "JSONDecodeError",
                       "AttributeError", "RecursionError"}
            /\ pc' = "submit" =>
                  /\ Len(frames) < MaxDepth
                  /\ Len(frames') = Len(frames) + 1
                  /\ auths' = auths + 1
            /\ pc' = "RecursionError" => Len(frames) = MaxDepth
            /\ Len(frames) < MaxDepth => pc' /= "RecursionError" ]_vars

C16_Witness ==
    /\ pc = "RecursionError"
    /\ Len(frames) = MaxDepth
    /\ \A i \in DOMAIN frames : frames[i].output = EmptyDict
    /\ frames[Len(frames)].bearer = 0
    /\ \A p \in DOMAIN futures : futures[p].res[2] \in {401, 1}

\* C17: in a run with several years one record is emitted per year, in the
\* order of the years, when the scan of the year is finalized and before any
\* page of the next year is requested; the total recorded for a year is the
\* total of that year's dataset, whatever happened in the other years.
C17_OneCorrectRecordPerYear ==
    [][ /\ report' /= report =>
              /\ pc = "finalized"
              /\ report' = Append(report, <<Year, DataTotal>>)
              /\ Len(report') = yi
              /\ AllFutures' = EmptyDict
        /\ yi' /= yi => (yi' = yi + 1 /\ Len(report') = yi)
        /\ pc' = "done" => Len(report') = Len(years) ]_vars

\* the part of C17 that does not depend on the totals being right
C17_RecordsInOrder ==
    [][ /\ report' /= report =>
              /\ pc = "finalized"
              /\ report' = Append(report, <<Year, total>>)
              /\ Len(report') = yi
              /\ AllFutures' = EmptyDict
        /\ yi' /= yi => (yi' = yi + 1 /\ Len(report') = yi)
        /\ pc' = "done" => Len(report') = Len(years) ]_vars

\* C18: a call that starts executing after a page of its pass was recorded
\* sends no request, returns (0, 1) and leaves the list of boundary
\* candidates alone; the list grows only by the page of a call whose request
\* was answered with a status other than 200, so no skipped page is in it.
C18_SkippedCallRecordsNothing ==
    [][ /\ \A p \in Calls :
              (Call(p).st = "started" /\ AllFutures'[p] /= Call(p)) =>
                  IF Len(pageCount) > 0
                  THEN /\ AllFutures'[p] = [st |-> "done", res |-> <<0, 1>>]
                       /\ pageCount' = pageCount
                  ELSE AllFutures'[p].st = "inflight"
        /\ (pageCount' /= pageCount /\ pageCount' /= <<>>) =>
              \E p \in Calls :
                  /\ pageCount' = Append(pageCount, p)
                  /\ Call(p).st = "answered"
                  /\ AllFutures'[p].st = "done"
                  /\ AllFutures'[p].res[1] = 0
                  /\ AllFutures'[p].res[2] \notin {200, 1}
        /\ \A p \in Calls :
              Call(p).res[2] = 1 => p \notin Range(pageCount) ]_vars

C18_Witness ==
    /\ pc = "submit"
    /\ Len(pageCount) = 1
    /\ \E p \in DOMAIN futures :
          /\ futures[p] = [st |-> "done", res |-> <<0, 1>>]
          /\ p > pageCount[1]
    /\ loop = "assign"
    /\ future.st = "queued"

\* C19: once the submitting loop of a pass has ended the list of boundary
\* candidates is not empty; every page in it was submitted in this pass and
\* its call returned a status that is neither 200 nor the skip sentinel, so
\* min(pageCount) exists, is a key of futures, and has such a status.
C19_BoundaryIsDefined ==
    /\ pc \in {"decide", "finalized", "RecursionError"} => Len(pageCount) > 0
    /\ \A i \in DOMAIN pageCount :
          /\ pageCount[i] \in Calls
          /\ pageCount[i] \in StartPage..page
          /\ Call(pageCount[i]).st = "done"
          /\ Call(pageCount[i]).res[2] \notin {200, 1}
    /\ loop = "while" =>
          \A i \in DOMAIN pageCount :
              /\ pageCount[i] \in DOMAIN futures
              /\ pageCount[i] \in StartPage..(page - 1)
    /\ pc /= "submit" => loop = "while"
    /\ Len(pageCount) > 0 =>
          LET m == CHOOSE x \in Range(pageCount) : \A y \in Range(pageCount) : x <= y
          IN Call(m).res[2] \in {401, 404}

C19_Witness ==
    /\ pc = "decide"
    /\ Len(pageCount) >= 2
    /\ pageCount[1] > pageCount[2]
    /\ \E p \in DOMAIN futures : futures[p].res[2] = 1 /\ p < pageCount[1]

\* C20: the token main holds is the one of the startup authentication and no
\* reauthentication changes it; the first pass of every year is sent with it,
\* whatever was renewed in earlier years, and a token obtained by a
\* reauthentication is sent only by the later passes of the same year.
C20_StartupTokenPerYear ==
    [][ /\ pc /= "start" => mainBearer' = mainBearer
        /\ (yi' /= yi /\ pc' = "submit") =>
              /\ frames' = <<>>
              /\ bearer' = mainBearer'
              /\ bearer' = 1
        /\ (pc = "decide" /\ pc' = "submit") =>
              /\ auths' = auths + 1
              /\ bearer' \in {0, auths'}
              /\ bearer' /= mainBearer
              /\ frames'[Len(frames')].bearer = bearer'
        /\ (pc = "submit" /\ pc' \in {"submit", "decide"}) => bearer' = bearer ]_vars

C20_Witness ==
    /\ yi = 3
    /\ pc = "submit"
    /\ frames = <<>>
    /\ auths >= 3
    /\ bearer = 1
    /\ bearer \notin valid
    /\ valid /= {}
    /\ \E p \in DOMAIN futures : futures[p].st = "inflight"

====
